---- MODULE Spec2Model ----
(***************************************************************************)
(* Model of the rebalancing engine of UnifiedProcessor (src/app.py):       *)
(* _get_team_stats, calculate_spreads, the solo/pair classifiers, the      *)
(* three-tier candidate generator, the improvement scorer, the selector,   *)
(* _apply_swap and the optimize loop.                                      *)
(*                                                                         *)
(* Student identities are the numbers 1..NumStudents; Ghost is an identity *)
(* that a team list may hold but that has no entry in self.students.       *)
(* self.teams is a dict in insertion order: it is modelled as a sequence   *)
(* of member lists, a team's name being its index.  gender 'Α'/'Κ' is      *)
(* written "A"/"K", greek_knowledge 'Ν'/'Ο' is written "N"/"O".            *)
(***************************************************************************)
EXTENDS Integers, Sequences, FiniteSets, TLC

VARIABLES teams, students, target_ep3, target_gender, target_greek,
          max_iterations, iteration, applied_swaps, final_spreads,
          pc, stop, run, start_teams, prev_teams, first_stop, first_log,
          pool, best_swap, hypothetical, improvement

vars == <<teams, students, target_ep3, target_gender, target_greek,
          max_iterations, iteration, applied_swaps, final_spreads,
          pc, stop, run, start_teams, prev_teams, first_stop, first_log,
          pool, best_swap, hypothetical, improvement>>

(* ------------------------------ bounds --------------------------------- *)
NumStudents == 5
MaxTeams == 3
MaxIter == 2
MaxPool == 3

Known == 1..NumStudents
Ghost == 0
None == [priority |-> 0]

(* ------------------------- sequence helpers ---------------------------- *)
Range(s) == {s[i] : i \in DOMAIN s}

SetMax(S) == CHOOSE x \in S : \A y \in S : y <= x
SetMin(S) == CHOOSE x \in S : \A y \in S : x <= y

\* index of the first maximal / minimal entry: Python's max()/min() over
\* dict items with a key function return the first extreme item
\* the last maximal entry instead of the first
LastMaxIdx(s) == CHOOSE i \in DOMAIN s :
                    /\ \A j \in DOMAIN s : s[j] <= s[i]
                    /\ \A j \in (i+1)..Len(s) : s[j] < s[i]
FirstMaxIdx(s) == CHOOSE i \in DOMAIN s :
                     /\ \A j \in DOMAIN s : s[j] <= s[i]
                     /\ \A j \in 1..(i-1) : s[j] < s[i]
FirstMinIdx(s) == CHOOSE i \in DOMAIN s :
                     /\ \A j \in DOMAIN s : s[i] <= s[j]
                     /\ \A j \in 1..(i-1) : s[i] < s[j]

\* list.remove(x): drops the first occurrence
RemoveFirst(s, x) ==
    IF x \notin Range(s) THEN s
    ELSE LET k == CHOOSE i \in DOMAIN s : s[i] = x /\ \A j \in 1..(i-1) : s[j] # x
         IN  SubSeq(s, 1, k-1) \o SubSeq(s, k+1, Len(s))

RECURSIVE RemoveAll(_, _)
RemoveAll(s, names) ==
    IF names = <<>> THEN s
    ELSE RemoveAll(RemoveFirst(s, Head(names)), Tail(names))

\* the pairs (x, y) in the order of "for x in xs: for y in ys"
RECURSIVE PairWith(_, _)
PairWith(x, ys) ==
    IF ys = <<>> THEN <<>> ELSE <<<<x, Head(ys)>>>> \o PairWith(x, Tail(ys))

RECURSIVE CrossSeq(_, _)
CrossSeq(xs, ys) ==
    IF xs = <<>> THEN <<>> ELSE PairWith(Head(xs), ys) \o CrossSeq(Tail(xs), ys)

(* --------------------------- statistics -------------------------------- *)
\* number of list positions of names holding a known student counted by a counter
\* (attr is a field of Student, vals the values the counter accepts)
\* a counter that takes an unknown name for a student with the loader's
\* defaults
CountIfDefaulting(names, attr, vals) ==
    Cardinality({i \in DOMAIN names :
                    IF names[i] \in DOMAIN students
                       THEN students[names[i]][attr] \in vals
                       ELSE [gender |-> "A", greek_knowledge |-> "N", choice |-> 1][attr] \in vals})

CountIf(names, attr, vals) ==
    Cardinality({i \in DOMAIN names :
                    names[i] \in DOMAIN students /\ students[names[i]][attr] \in vals})

\* the values the code writes 'Ν', 'N' (one letter here) and 'Ο', 'O'
GreekYes == {"N"}
GreekNo == {"O"}

\* the counters of one team
StatsOfTeam(student_names) ==
    [boys |-> CountIf(student_names, "gender", {"A"}),
     girls |-> CountIf(student_names, "gender", {"K"}),
     greek_yes |-> CountIf(student_names, "greek_knowledge", GreekYes),
     greek_no |-> CountIf(student_names, "greek_knowledge", GreekNo),
     ep1 |-> CountIf(student_names, "choice", {1}),
     ep2 |-> CountIf(student_names, "choice", {2}),
     ep3 |-> CountIf(student_names, "choice", {3})]

\* "for team_name, student_names in self.teams.items()", in dict order
RECURSIVE TeamStats(_)
TeamStats(T) ==
    IF T = <<>> THEN <<>>
    ELSE Append(TeamStats(SubSeq(T, 1, Len(T) - 1)), StatsOfTeam(T[Len(T)]))

_get_team_stats == TeamStats(teams)

\* calculate_spreads with the girls spread taken from the boys counts
SpreadsOfBoysTwice(stats) ==
    IF stats = <<>> THEN [ep3 |-> 0, boys |-> 0, girls |-> 0, greek_yes |-> 0]
    ELSE LET ep3_vals == {stats[t].ep3 : t \in DOMAIN stats}
             boys_vals == {stats[t].boys : t \in DOMAIN stats}
             greek_yes_vals == {stats[t].greek_yes : t \in DOMAIN stats}
         IN  [ep3 |-> SetMax(ep3_vals) - SetMin(ep3_vals),
              boys |-> SetMax(boys_vals) - SetMin(boys_vals),
              girls |-> SetMax(boys_vals) - SetMin(boys_vals),
              greek_yes |-> SetMax(greek_yes_vals) - SetMin(greek_yes_vals)]

SpreadsOf(stats) ==
    IF stats = <<>> THEN [ep3 |-> 0, boys |-> 0, girls |-> 0, greek_yes |-> 0]
    ELSE LET ep3_vals == {stats[t].ep3 : t \in DOMAIN stats}
             boys_vals == {stats[t].boys : t \in DOMAIN stats}
             girls_vals == {stats[t].girls : t \in DOMAIN stats}
             greek_yes_vals == {stats[t].greek_yes : t \in DOMAIN stats}
         IN  [ep3 |-> SetMax(ep3_vals) - SetMin(ep3_vals),
              boys |-> SetMax(boys_vals) - SetMin(boys_vals),
              girls |-> SetMax(girls_vals) - SetMin(girls_vals),
              greek_yes |-> SetMax(greek_yes_vals) - SetMin(greek_yes_vals)]

calculate_spreads == SpreadsOf(_get_team_stats)

(* --------------------------- classifiers ------------------------------- *)
\* has_friend that finds no friend
has_friend_never(name, student_names) == FALSE

\* any(f in student_names for f in student.friends)
has_friend(name, student_names) ==
    \E f \in students[name].friends : f \in Range(student_names)

\* _get_solos_with_ep3 without the test of student.locked
_get_solos_with_ep3_ignoring_lock(team_name) ==
    SelectSeq(teams[team_name],
              LAMBDA name : /\ name \in DOMAIN students
                            /\ students[name].choice = 3
                            /\ ~(\E f \in students[name].friends : f \in Range(teams[team_name])))

_get_solos_with_ep3(team_name) ==
    SelectSeq(teams[team_name],
              LAMBDA name : /\ name \in DOMAIN students
                            /\ ~(students[name].locked \/ students[name].choice # 3)
                            /\ ~has_friend(name, teams[team_name]))

\* _get_solos_without_ep3 with the choice test of _get_solos_with_ep3
_get_solos_without_ep3_copied(team_name) ==
    SelectSeq(teams[team_name],
              LAMBDA name : /\ name \in DOMAIN students
                            /\ ~(students[name].locked \/ students[name].choice # 3)
                            /\ ~(\E f \in students[name].friends : f \in Range(teams[team_name])))

_get_solos_without_ep3(team_name) ==
    SelectSeq(teams[team_name],
              LAMBDA name : /\ name \in DOMAIN students
                            /\ ~(students[name].locked \/ students[name].choice = 3)
                            /\ ~has_friend(name, teams[team_name]))

AnyEp3(student_a, student_b) == student_a.choice = 3 \/ student_b.choice = 3
\* the choice test of _get_pairs_without_ep3 on student_a alone
NoEp3FirstOnly(student_a, student_b) == student_a.choice # 3
NoEp3(student_a, student_b) == student_a.choice # 3 /\ student_b.choice # 3

\* the inner "for name_b" loop: positions of student_names that end the loop
\* with an append (name_b usable, linked to name_a, choice test passed)
PartnerIdx(student_names, name_a, processed, with_ep3) ==
    {j \in DOMAIN student_names :
        LET name_b == student_names[j] IN
        /\ ~(name_b = name_a \/ name_b \in processed \/ name_b \notin DOMAIN students)
        /\ ~students[name_b].locked
        /\ (name_b \in students[name_a].friends \/ name_a \in students[name_b].friends)
        /\ IF with_ep3 THEN AnyEp3(students[name_a], students[name_b])
                       ELSE NoEp3(students[name_a], students[name_b])}

RECURSIVE PairsFrom(_, _, _, _)
PairsFrom(student_names, i, processed, with_ep3) ==
    IF i > Len(student_names) THEN <<>>
    ELSE LET name_a == student_names[i] IN
         IF name_a \in processed \/ name_a \notin DOMAIN students
            THEN PairsFrom(student_names, i + 1, processed, with_ep3)
         ELSE IF students[name_a].locked
            THEN PairsFrom(student_names, i + 1, processed, with_ep3)
         ELSE LET cand == PartnerIdx(student_names, name_a, processed, with_ep3) IN
              IF cand = {} THEN PairsFrom(student_names, i + 1, processed, with_ep3)
              ELSE LET j == CHOOSE k \in cand : \A m \in cand : k <= m
                       name_b == student_names[j]
                   IN  <<[name_a |-> name_a, name_b |-> name_b]>>
                       \o PairsFrom(student_names, i + 1,
                                    processed \cup {name_a, name_b}, with_ep3)

_get_pairs_with_ep3(team_name) == PairsFrom(teams[team_name], 1, {}, TRUE)
_get_pairs_without_ep3(team_name) == PairsFrom(teams[team_name], 1, {}, FALSE)

(* ------------------------------ scorer --------------------------------- *)
\* stats_after: the copy of stats_before with the four adjusted counters of
\* team_high and team_low (greek_no, ep1, ep2 are copied and left as they are)
\* the four counters that the two "-= 1" / "+= 1" loops over names_out and
\* names_in change in one team's entry of stats_after (sign = -1: names leave)
Shift(entry, names, sign) ==
    [entry EXCEPT !.ep3 = @ + sign * CountIf(names, "choice", {3}),
                  !.boys = @ + sign * CountIf(names, "gender", {"A"}),
                  !.girls = @ + sign * CountIf(names, "gender", {"K"}),
                  !.greek_yes = @ + sign * CountIf(names, "greek_knowledge", GreekYes)]

\* stats_after without the two loops over names_in
StatsAfterOutOnly(stats_before, team_high, names_out, team_low, names_in) ==
    LET s1 == [stats_before EXCEPT ![team_high] = Shift(@, names_out, -1)]
    IN  [s1 EXCEPT ![team_low] = Shift(@, names_out, 1)]

StatsAfter(stats_before, team_high, names_out, team_low, names_in) ==
    LET s1 == [stats_before EXCEPT ![team_high] = Shift(@, names_out, -1)]
        s2 == [s1 EXCEPT ![team_high] = Shift(@, names_in, 1)]
        s3 == [s2 EXCEPT ![team_low] = Shift(@, names_in, -1)]
    IN  [s3 EXCEPT ![team_low] = Shift(@, names_out, 1)]

\* the improvement test with delta_ep3 >= 0 for delta_ep3 > 0
ImprovesNonStrict(delta_ep3, delta_boys, delta_girls, delta_greek) ==
    delta_ep3 >= 0 \/ (delta_ep3 = 0 /\ (delta_boys > 0 \/ delta_girls > 0 \/ delta_greek > 0))

Improves(delta_ep3, delta_boys, delta_girls, delta_greek) ==
    delta_ep3 > 0 \/ (delta_ep3 = 0 /\ (delta_boys > 0 \/ delta_girls > 0 \/ delta_greek > 0))

_calc_asymmetric_improvement(team_high, names_out, team_low, names_in) ==
    LET stats_before == _get_team_stats
        before == SpreadsOf(stats_before)
        after == SpreadsOf(StatsAfter(stats_before, team_high, names_out, team_low, names_in))
        delta_ep3 == before.ep3 - after.ep3
        delta_boys == before.boys - after.boys
        delta_girls == before.girls - after.girls
        delta_greek == before.greek_yes - after.greek_yes
    IN  [improves |-> Improves(delta_ep3, delta_boys, delta_girls, delta_greek),
         delta_ep3 |-> delta_ep3, delta_boys |-> delta_boys,
         delta_girls |-> delta_girls, delta_greek |-> delta_greek,
         ep3_before |-> before.ep3, ep3_after |-> after.ep3]

(* ----------------------------- generator ------------------------------- *)
MkSwap(max_team, names_out, min_team, names_in, prio) ==
    [from_team |-> max_team, students_out |-> names_out,
     to_team |-> min_team, students_in |-> names_in,
     improvement |-> _calc_asymmetric_improvement(max_team, names_out, min_team, names_in),
     priority |-> prio]

\* the gender test that lets every pairing pass
SameGenderAlways(a, b) == TRUE
SameGender(a, b) == students[a].gender = students[b].gender
SameGreek(a, b) == students[a].greek_knowledge = students[b].greek_knowledge

\* the test of Tier 1 used for Tier 3 as well
TierMatchStrict(p, prio) ==
    CASE prio = 1 -> SameGender(p[1], p[2]) /\ SameGreek(p[1], p[2])
      [] prio = 2 -> /\ SameGender(p[1].name_a, p[2].name_a)
                     /\ SameGender(p[1].name_b, p[2].name_b)
                     /\ SameGreek(p[1].name_a, p[2].name_a)
                     /\ SameGreek(p[1].name_b, p[2].name_b)
      [] prio = 3 -> SameGender(p[1], p[2]) /\ SameGreek(p[1], p[2])

\* a pair unit reduced to its first student
UnitNamesFirstOnly(u, prio) == IF prio = 2 THEN <<u.name_a>> ELSE <<u>>

\* the test of one tier's inner "if" on a pairing p = <<unit of max_team,
\* unit of min_team>> (a solo is a name, a pair a record name_a, name_b)
TierMatch(p, prio) ==
    CASE prio = 1 -> SameGender(p[1], p[2]) /\ SameGreek(p[1], p[2])
      [] prio = 2 -> /\ SameGender(p[1].name_a, p[2].name_a)
                     /\ SameGender(p[1].name_b, p[2].name_b)
                     /\ SameGreek(p[1].name_a, p[2].name_a)
                     /\ SameGreek(p[1].name_b, p[2].name_b)
      [] prio = 3 -> SameGender(p[1], p[2])

UnitNames(u, prio) == IF prio = 2 THEN <<u.name_a, u.name_b>> ELSE <<u>>

\* one tier's double loop over the pairings, in loop order: a pairing that
\* passes the tier's test and improves is appended
RECURSIVE TierSwaps(_, _, _, _)
TierSwaps(pairings, max_team, min_team, prio) ==
    IF pairings = <<>> THEN <<>>
    ELSE LET p == Head(pairings)
             rest == TierSwaps(Tail(pairings), max_team, min_team, prio)
         IN  IF ~TierMatch(p, prio) THEN rest
             ELSE LET w == MkSwap(max_team, UnitNames(p[1], prio),
                                  min_team, UnitNames(p[2], prio), prio)
                  IN  IF w.improvement.improves THEN <<w>> \o rest ELSE rest

\* a generator that stops at the first tier that yields a candidate
_generate_asymmetric_swaps_first_tier(max_team, min_team) ==
    LET max_solos_ep3 == _get_solos_with_ep3(max_team)
        max_pairs_ep3 == _get_pairs_with_ep3(max_team)
        min_solos_non_ep3 == _get_solos_without_ep3(min_team)
        min_pairs_non_ep3 == _get_pairs_without_ep3(min_team)
        p1 == TierSwaps(CrossSeq(max_solos_ep3, min_solos_non_ep3), max_team, min_team, 1)
        p2 == TierSwaps(CrossSeq(max_pairs_ep3, min_pairs_non_ep3), max_team, min_team, 2)
    IN  IF p1 # <<>> THEN p1
        ELSE IF p2 # <<>> THEN p2
        ELSE TierSwaps(CrossSeq(max_solos_ep3, min_solos_non_ep3), max_team, min_team, 3)

_generate_asymmetric_swaps(max_team, min_team) ==
    LET max_solos_ep3 == _get_solos_with_ep3(max_team)
        max_pairs_ep3 == _get_pairs_with_ep3(max_team)
        min_solos_non_ep3 == _get_solos_without_ep3(min_team)
        min_pairs_non_ep3 == _get_pairs_without_ep3(min_team)
    IN  TierSwaps(CrossSeq(max_solos_ep3, min_solos_non_ep3), max_team, min_team, 1)
        \o TierSwaps(CrossSeq(max_pairs_ep3, min_pairs_non_ep3), max_team, min_team, 2)
        \o TierSwaps(CrossSeq(max_solos_ep3, min_solos_non_ep3), max_team, min_team, 3)

(* ------------------------------ selector ------------------------------- *)
\* the key with delta_boys alone for delta_boys + delta_girls
SortKeyBoysOnly(x) == <<-x.improvement.delta_ep3,
                        -x.improvement.delta_boys,
                        -x.improvement.delta_greek,
                        x.priority>>

\* the key whose last entry prefers the higher tier
SortKeyHighestTier(x) == <<-x.improvement.delta_ep3,
                           -(x.improvement.delta_boys + x.improvement.delta_girls),
                           -x.improvement.delta_greek,
                           -x.priority>>

SortKey(x) == <<-x.improvement.delta_ep3,
                -(x.improvement.delta_boys + x.improvement.delta_girls),
                -x.improvement.delta_greek,
                x.priority>>

\* tuple comparison k1 < k2 of two keys
KeyLess(k1, k2) ==
    \E i \in 1..4 : k1[i] < k2[i] /\ \A j \in 1..(i-1) : k1[j] = k2[j]

\* list.sort(key=...) is stable: x is put after every entry whose key is not
\* greater than its own
RECURSIVE InsertSorted(_, _)
InsertSorted(sorted, x) ==
    IF sorted = <<>> THEN <<x>>
    ELSE IF KeyLess(SortKey(x), SortKey(Head(sorted)))
         THEN <<x>> \o sorted
         ELSE <<Head(sorted)>> \o InsertSorted(Tail(sorted), x)

RECURSIVE SortSwaps(_)
SortSwaps(swaps) ==
    IF swaps = <<>> THEN <<>>
    ELSE InsertSorted(SortSwaps(SubSeq(swaps, 1, Len(swaps) - 1)), swaps[Len(swaps)])

_select_best_swap(swaps) ==
    IF swaps = <<>> THEN None ELSE SortSwaps(swaps)[1]

(* ------------------------------- apply --------------------------------- *)
\* _apply_swap whose third loop appends students_out to every team but
\* from_team
_apply_swap_appending_everywhere(T, swap) ==
    LET removed == [T EXCEPT ![swap.from_team] = RemoveAll(@, swap.students_out)]
        removed2 == [removed EXCEPT ![swap.to_team] = RemoveAll(@, swap.students_in)]
        added == [t \in DOMAIN T |->
                     IF t = swap.from_team THEN removed2[t]
                     ELSE removed2[t] \o swap.students_out]
    IN  [added EXCEPT ![swap.from_team] = @ \o swap.students_in]

\* _apply_swap that leaves students_in in to_team as well
_apply_swap_keeping_in(T, swap) ==
    LET removed == [T EXCEPT ![swap.from_team] = RemoveAll(@, swap.students_out)]
        added == [removed EXCEPT ![swap.to_team] = @ \o swap.students_out]
    IN  [added EXCEPT ![swap.from_team] = @ \o swap.students_in]

\* _apply_swap without its last loop: students_in are not appended to from_team
_apply_swap_dropping_in(T, swap) ==
    LET removed == [T EXCEPT ![swap.from_team] = RemoveAll(@, swap.students_out)]
        removed2 == [removed EXCEPT ![swap.to_team] = RemoveAll(@, swap.students_in)]
    IN  [removed2 EXCEPT ![swap.to_team] = @ \o swap.students_out]

_apply_swap(T, swap) ==
    LET removed == [T EXCEPT ![swap.from_team] = RemoveAll(@, swap.students_out)]
        removed2 == [removed EXCEPT ![swap.to_team] = RemoveAll(@, swap.students_in)]
        added == [removed2 EXCEPT ![swap.to_team] = @ \o swap.students_out]
    IN  [added EXCEPT ![swap.from_team] = @ \o swap.students_in]


(* ------------------------------ optimize ------------------------------- *)
\* the first break with < for <=
AllWithinTargetsStrict(spreads) ==
    /\ spreads.ep3 < target_ep3
    /\ spreads.boys < target_gender
    /\ spreads.girls < target_gender
    /\ spreads.greek_yes < target_greek

\* the first break tested on the spreads stored by the previous return
AllWithinTargetsStale(spreads) ==
    /\ final_spreads.ep3 <= target_ep3
    /\ final_spreads.boys <= target_gender
    /\ final_spreads.girls <= target_gender
    /\ final_spreads.greek_yes <= target_greek

AllWithinTargets(spreads) ==
    /\ spreads.ep3 <= target_ep3
    /\ spreads.boys <= target_gender
    /\ spreads.girls <= target_gender
    /\ spreads.greek_yes <= target_greek

RECURSIVE Ep3Column(_)
Ep3Column(stats) ==
    IF stats = <<>> THEN <<>>
    ELSE Append(Ep3Column(SubSeq(stats, 1, Len(stats) - 1)), stats[Len(stats)].ep3)

ep3_counts == Ep3Column(_get_team_stats)
max_team == FirstMaxIdx(ep3_counts)
min_team == FirstMinIdx(ep3_counts)

\* the second break with < for <=
Ep3GapBelowTarget ==
    LET counts == Ep3Column(TeamStats(teams))
    IN  counts[FirstMaxIdx(counts)] - counts[FirstMinIdx(counts)] < target_ep3

Ep3GapWithinTarget ==
    LET counts == ep3_counts
    IN  counts[FirstMaxIdx(counts)] - counts[FirstMinIdx(counts)] <= target_ep3

all_swaps == _generate_asymmetric_swaps(max_team, min_team)

\* "for iteration in range(max_iterations)" has run out
LoopExhausted ==
    /\ pc = "loop"
    /\ iteration >= max_iterations
    /\ stop' = "exhausted"
    /\ pc' = "final"
    /\ UNCHANGED <<teams, students, target_ep3, target_gender, target_greek,
                   max_iterations, iteration, applied_swaps, final_spreads,
                   run, start_teams, prev_teams, first_stop, first_log,
                   pool, best_swap,
                   hypothetical, improvement>>

\* first break: all four spreads within their targets
BreakAllWithin ==
    /\ pc = "loop"
    /\ iteration < max_iterations
    /\ AllWithinTargets(calculate_spreads)
    /\ stop' = "converged1"
    /\ pc' = "final"
    /\ UNCHANGED <<teams, students, target_ep3, target_gender, target_greek,
                   max_iterations, iteration, applied_swaps, final_spreads,
                   run, start_teams, prev_teams, first_stop, first_log,
                   pool, best_swap,
                   hypothetical, improvement>>

\* max() and min() of the empty ep3_counts raise ValueError: the exception
\* leaves optimize, nothing is returned
RaiseValueError ==
    /\ pc = "loop"
    /\ iteration < max_iterations
    /\ ~AllWithinTargets(calculate_spreads)
    /\ ep3_counts = <<>>
    /\ stop' = "error"
    /\ pc' = "raised"
    /\ UNCHANGED <<teams, students, target_ep3, target_gender, target_greek,
                   max_iterations, iteration, applied_swaps, final_spreads,
                   run, start_teams, prev_teams, first_stop, first_log,
                   pool, best_swap,
                   hypothetical, improvement>>

\* second break: ep3 gap of max_team and min_team within target_ep3
BreakEp3Within ==
    /\ pc = "loop"
    /\ iteration < max_iterations
    /\ ~AllWithinTargets(calculate_spreads)
    /\ ep3_counts # <<>>
    /\ Ep3GapWithinTarget
    /\ stop' = "converged2"
    /\ pc' = "final"
    /\ UNCHANGED <<teams, students, target_ep3, target_gender, target_greek,
                   max_iterations, iteration, applied_swaps, final_spreads,
                   run, start_teams, prev_teams, first_stop, first_log,
                   pool, best_swap,
                   hypothetical, improvement>>

\* third and fourth break: no candidate, or no best swap
BreakNoSwap ==
    /\ pc = "loop"
    /\ iteration < max_iterations
    /\ ~AllWithinTargets(calculate_spreads)
    /\ ep3_counts # <<>>
    /\ ~Ep3GapWithinTarget
    /\ \E swaps \in {all_swaps} :
         /\ swaps = <<>> \/ _select_best_swap(swaps) = None
         /\ pool' = SortSwaps(swaps)
    /\ stop' = "stuck"
    /\ pc' = "final"
    /\ UNCHANGED <<teams, students, target_ep3, target_gender, target_greek,
                   max_iterations, iteration, applied_swaps, final_spreads,
                   run, start_teams, prev_teams, first_stop, first_log, best_swap,
                   hypothetical, improvement>>

\* an iteration that swaps without looking at the iteration cap
ApplyBestUncapped ==
    /\ pc = "loop"
    /\ ~AllWithinTargets(calculate_spreads)
    /\ ep3_counts # <<>>
    /\ ~Ep3GapWithinTarget
    /\ \E swaps \in {all_swaps} :
         /\ swaps # <<>>
         /\ \E best \in {_select_best_swap(swaps)} :
              /\ best # None
              /\ teams' = _apply_swap(teams, best)
              /\ prev_teams' = teams
              /\ applied_swaps' = Append(applied_swaps, best)
              /\ best_swap' = best
         /\ pool' = SortSwaps(swaps)
    /\ iteration' = iteration + 1
    /\ UNCHANGED <<students, target_ep3, target_gender, target_greek,
                   max_iterations, final_spreads, pc, stop,
                   run, start_teams, first_stop, first_log,
                   hypothetical, improvement>>

\* the iteration runs to its end: apply best_swap and log it
ApplyBest ==
    /\ pc = "loop"
    /\ iteration < max_iterations
    /\ ~AllWithinTargets(calculate_spreads)
    /\ ep3_counts # <<>>
    /\ ~Ep3GapWithinTarget
    /\ \E swaps \in {all_swaps} :
         /\ swaps # <<>>
         /\ \E best \in {_select_best_swap(swaps)} :
              /\ best # None
              /\ teams' = _apply_swap(teams, best)
              /\ prev_teams' = teams
              /\ applied_swaps' = Append(applied_swaps, best)
              /\ best_swap' = best
         /\ pool' = SortSwaps(swaps)
    /\ iteration' = iteration + 1
    /\ UNCHANGED <<students, target_ep3, target_gender, target_greek,
                   max_iterations, final_spreads, pc, stop,
                   run, start_teams, first_stop, first_log,
                   hypothetical, improvement>>

\* after the loop: final_spreads = self.calculate_spreads(); return
Return ==
    /\ pc = "final"
    /\ final_spreads' = calculate_spreads
    /\ pc' = "done"
    /\ UNCHANGED <<teams, students, target_ep3, target_gender, target_greek,
                   max_iterations, iteration, applied_swaps, stop,
                   run, start_teams, prev_teams, first_stop, first_log,
                   pool, best_swap,
                   hypothetical, improvement>>

\* the caller calls optimize a second time on the same object
CallAgain ==
    /\ pc = "done"
    /\ run = 1
    /\ run' = 2
    /\ first_stop' = stop
    /\ first_log' = applied_swaps
    /\ start_teams' = teams
    /\ prev_teams' = teams
    /\ iteration' = 0
    /\ applied_swaps' = <<>>
    /\ stop' = "none"
    /\ pc' = "loop"
    /\ pool' = <<>>
    /\ best_swap' = None
    /\ UNCHANGED <<teams, students, target_ep3, target_gender, target_greek,
                   max_iterations, final_spreads,
                   hypothetical, improvement>>

Next ==
    \/ LoopExhausted
    \/ BreakAllWithin
    \/ RaiseValueError
    \/ BreakEp3Within
    \/ BreakNoSwap
    \/ ApplyBest
    \/ Return
    \/ CallAgain

(* ------------------------------- inputs -------------------------------- *)
RECURSIVE SumSeq(_)
SumSeq(s) == IF s = <<>> THEN 0 ELSE Head(s) + SumSeq(Tail(s))

\* team t holds the next sizes[t] identities in ascending order
TeamsOfSizes(sizes) ==
    [t \in DOMAIN sizes |->
        [k \in 1..sizes[t] |-> SumSeq(SubSeq(sizes, 1, t-1)) + k]]

Layouts ==
    {sizes \in UNION {[1..n -> 1..NumStudents] : n \in 0..MaxTeams} :
        SumSeq(sizes) = (IF sizes = <<>> THEN 0 ELSE NumStudents)}

NoSpreads == [ep3 |-> 0, boys |-> 0, girls |-> 0, greek_yes |-> 0]

InitTeams(T, choice, gender, greek, locked, friends, targets, maxit) ==
    /\ teams = T
    /\ students = [n \in Known |->
                      [choice |-> choice[n], gender |-> gender[n],
                       greek_knowledge |-> greek[n], friends |-> friends[n],
                       locked |-> n \in locked]]
    /\ target_ep3 = targets[1]
    /\ target_gender = targets[2]
    /\ target_greek = targets[3]
    /\ max_iterations = maxit
    /\ iteration = 0
    /\ applied_swaps = <<>>
    /\ final_spreads = NoSpreads
    /\ pc = "loop"
    /\ stop = "none"
    /\ run = 1
    /\ start_teams = teams
    /\ prev_teams = teams
    /\ first_stop = "none"
    /\ first_log = <<>>
    /\ pool = <<>>
    /\ best_swap = None
    /\ hypothetical = None
    /\ improvement = None

InitWith(sizes, choice, gender, greek, locked, friends, targets, maxit) ==
    InitTeams(TeamsOfSizes(sizes), choice, gender, greek, locked, friends, targets, maxit)

NoFriends == [n \in Known |-> {}]
AllBoys == [n \in Known |-> "A"]
AllProficient == [n \in Known |-> "N"]
Choices == [Known -> {1, 3}]
SplitLayouts == {<<NumStudents - 2, 2>>, <<2, NumStudents - 2>>}

\* target_ep3, target_gender, target_greek: the defaults of __init__ and two
\* tighter settings
Targets == {<<3, 4, 4>>, <<1, 1, 1>>, <<0, 0, 0>>}

\* friends lists made of the directed links of E (a link <<a, b>>: b is in
\* the friends of a)
FriendsOf(E) == [n \in Known |-> {e[2] : e \in {d \in E : d[1] = n}}]

\* links among the first three members of the first team, and between the two
\* members of the second team
LinksHigh == {<<a, b>> \in (1..3) \X (1..3) : a # b}
LinksLow == {{}, {<<NumStudents - 1, NumStudents>>},
             {<<NumStudents - 1, NumStudents>>, <<NumStudents, NumStudents - 1>>}}

\* every layout and every choice, under every target setting and under
\* every iteration cap
InitLayouts ==
    \E sizes \in Layouts, choice \in Choices :
        \/ \E targets \in Targets :
              InitWith(sizes, choice, AllBoys, AllProficient, {}, NoFriends, targets, MaxIter)
        \/ \E maxit \in 0..MaxIter :
              InitWith(sizes, choice, AllBoys, AllProficient, {}, NoFriends, <<0, 0, 0>>, maxit)

\* every choice and every greek_knowledge, in a team of NumStudents - 2 and a
\* team of two
InitGreek ==
    \E choice \in Choices, greek \in [Known -> {"N", "O"}],
       targets \in {<<0, 0, 0>>, <<1, 0, 0>>} :
        InitWith(<<NumStudents - 2, 2>>, choice, AllBoys, greek, {}, NoFriends,
                 targets, MaxIter)

\* every choice and every gender
InitGender ==
    \E sizes \in SplitLayouts, choice \in Choices, gender \in [Known -> {"A", "K"}] :
        InitWith(sizes, choice, gender, AllProficient, {}, NoFriends, <<0, 0, 0>>, MaxIter)

\* every choice and every set of locked students, in two teams and in three
LockedLayouts == SplitLayouts \cup {<<2, NumStudents - 3, 1>>}
InitLocked ==
    \E sizes \in LockedLayouts, choice \in Choices, locked \in SUBSET Known :
        InitWith(sizes, choice, AllBoys, AllProficient, locked, NoFriends,
                 <<0, 0, 0>>, MaxIter)

\* every choice and every friend graph over LinksHigh and LinksLow
InitFriends ==
    \E choice \in Choices, high \in SUBSET LinksHigh, low \in LinksLow :
        InitWith(<<NumStudents - 2, 2>>, choice, AllBoys, AllProficient, {},
                 FriendsOf(high \cup low), <<0, 0, 0>>, MaxIter)

\* two teams of two, the first two students with choice 3 and the other two
\* with choice 1, one gender and one greek_knowledge for all, nobody locked,
\* no friends; the students after the fourth are in no team
ExampleChoice == [n \in Known |-> IF n <= 2 THEN 3 ELSE 1]
InitExample ==
    \E g \in {"A", "K"}, k \in {"N", "O"}, targets \in Targets, maxit \in 1..MaxIter :
        InitWith(<<2, 2>>, ExampleChoice, [n \in Known |-> g], [n \in Known |-> k],
                 {}, NoFriends, targets, maxit)

\* an empty team mapping under targets of which one cannot be met
Unmeetable == {<<-1, 4, 4>>, <<3, -1, 4>>, <<3, 4, -1>>}
InitUnmeetable ==
    \E choice \in Choices, targets \in Unmeetable, maxit \in 0..MaxIter :
        InitWith(<<>>, choice, AllBoys, AllProficient, {}, NoFriends, targets, maxit)

\* a member list that holds, first or last, an identity without a student
\* record; the first or the last student may name that identity as a friend
WithGhost(T, t, first) ==
    [T EXCEPT ![t] = IF first THEN <<Ghost>> \o @ ELSE Append(@, Ghost)]
GhostLinks == {{}, {<<1, Ghost>>}, {<<NumStudents, Ghost>>}}
InitGhost ==
    \E sizes \in SplitLayouts, choice \in Choices, t \in 1..2, first \in BOOLEAN,
       links \in GhostLinks :
        InitTeams(WithGhost(TeamsOfSizes(sizes), t, first), choice, AllBoys,
                  AllProficient, {}, FriendsOf(links), <<0, 0, 0>>, MaxIter)

Init ==
    \/ InitUnmeetable
    \/ InitGhost
    \/ InitLayouts
    \/ InitGreek
    \/ InitGender
    \/ InitLocked
    \/ InitFriends
    \/ InitExample

Spec == Init /\ [][Next]_vars

(* ------------------ _select_best_swap called on its own ---------------- *)
\* the improvement vectors <<delta_ep3, <<delta_boys, delta_girls>>,
\* delta_greek>> and the tiers of the candidates passed in: solo exchanges,
\* which Tier 1 and Tier 3 generate
Deltas == {0, 1} \X {<<0, 0>>, <<1, -1>>, <<1, 0>>} \X {0, 1}
Tiers == {1, 3}

\* the i-th candidate of the list: it moves student i out and student
\* i + MaxPool in
Candidate(i, d, prio) ==
    [from_team |-> 1, students_out |-> <<i>>,
     to_team |-> 2, students_in |-> <<i + MaxPool>>,
     improvement |-> [improves |-> TRUE,
                      delta_ep3 |-> d[1], delta_boys |-> d[2][1],
                      delta_girls |-> d[2][2], delta_greek |-> d[3],
                      ep3_before |-> 2, ep3_after |-> 2 - d[1]],
     priority |-> prio]

RECURSIVE CandidateList(_, _, _)
CandidateList(n, ds, prios) ==
    IF n = 0 THEN <<>>
    ELSE Append(CandidateList(n - 1, ds, prios), Candidate(n, ds[n], prios[n]))

SelectInit ==
    /\ \E n \in 0..MaxPool : \E ds \in [1..n -> Deltas], prios \in [1..n -> Tiers] :
          pool = CandidateList(n, ds, prios)
    /\ best_swap = None
    /\ hypothetical = None
    /\ improvement = None
    /\ pc = "select"
    /\ teams = <<>>
    /\ students = [n \in Known |->
                      [choice |-> 1, gender |-> "A", greek_knowledge |-> "N",
                       friends |-> {}, locked |-> FALSE]]
    /\ target_ep3 = 3
    /\ target_gender = 4
    /\ target_greek = 4
    /\ max_iterations = 0
    /\ iteration = 0
    /\ applied_swaps = <<>>
    /\ final_spreads = NoSpreads
    /\ stop = "none"
    /\ run = 1
    /\ start_teams = <<>>
    /\ prev_teams = <<>>
    /\ first_stop = "none"
    /\ first_log = <<>>

\* best_swap = self._select_best_swap(pool): the list is sorted in place and
\* its first entry, or None, is returned
SelectCall ==
    /\ pc = "select"
    /\ best_swap' = _select_best_swap(pool)
    /\ pool' = SortSwaps(pool)
    /\ pc' = "selected"
    /\ UNCHANGED <<teams, students, target_ep3, target_gender, target_greek,
                   max_iterations, iteration, applied_swaps, final_spreads,
                   stop, run, start_teams, prev_teams, first_stop, first_log,
                   hypothetical, improvement>>

SelectSpec == SelectInit /\ [][SelectCall]_vars

(* ------------- _calc_asymmetric_improvement called on its own ---------- *)
\* the lists of one or two members of a team, in list order
NameLists(student_names) ==
    {<<student_names[i]>> : i \in DOMAIN student_names}
    \cup {<<student_names[p[1]], student_names[p[2]]>> :
             p \in {q \in (DOMAIN student_names) \X (DOMAIN student_names) : q[1] < q[2]}}

\* two or three teams that need not hold every student
CalcLayouts == {<<3, 1>>, <<2, 2>>, <<NumStudents - 2, 2>>, <<2, 2, 1>>}
CalcChoices == {[n \in Known |-> 1], ExampleChoice, [n \in Known |-> IF n = 1 THEN 3 ELSE 1]}
CalcGreek == {AllProficient, [n \in Known |-> IF n = 1 THEN "O" ELSE "N"]}

CalcInit ==
    /\ \E sizes \in CalcLayouts, choice \in CalcChoices,
          gender \in [Known -> {"A", "K"}], greek \in CalcGreek :
          /\ teams = TeamsOfSizes(sizes)
          /\ students = [n \in Known |->
                            [choice |-> choice[n], gender |-> gender[n],
                             greek_knowledge |-> greek[n], friends |-> {},
                             locked |-> FALSE]]
    /\ \E team_high \in DOMAIN teams, team_low \in DOMAIN teams :
          /\ team_high # team_low
          /\ \E names_out \in NameLists(teams[team_high]),
                names_in \in NameLists(teams[team_low]) :
                hypothetical = [team_high |-> team_high, names_out |-> names_out,
                                team_low |-> team_low, names_in |-> names_in]
    /\ improvement = None
    /\ pool = <<>>
    /\ best_swap = None
    /\ pc = "calc"
    /\ target_ep3 = 3
    /\ target_gender = 4
    /\ target_greek = 4
    /\ max_iterations = 0
    /\ iteration = 0
    /\ applied_swaps = <<>>
    /\ final_spreads = NoSpreads
    /\ stop = "none"
    /\ run = 1
    /\ start_teams = teams
    /\ prev_teams = teams
    /\ first_stop = "none"
    /\ first_log = <<>>

\* improvement = self._calc_asymmetric_improvement(team_high, names_out,
\*                                                  team_low, names_in)
CalcCall ==
    /\ pc = "calc"
    /\ improvement' = _calc_asymmetric_improvement(hypothetical.team_high,
                                                   hypothetical.names_out,
                                                   hypothetical.team_low,
                                                   hypothetical.names_in)
    /\ pc' = "scored"
    /\ UNCHANGED <<teams, students, target_ep3, target_gender, target_greek,
                   max_iterations, iteration, applied_swaps, final_spreads,
                   stop, run, start_teams, prev_teams, first_stop, first_log,
                   pool, best_swap, hypothetical>>

CalcSpec == CalcInit /\ [][CalcCall]_vars

(* ============================ properties =============================== *)
Swapped == applied_swaps # <<>>
LastSwap == applied_swaps[Len(applied_swaps)]
Moved(swap) == Range(swap.students_out) \cup Range(swap.students_in)
InTeam(T, t, n) == n \in Range(T[t])
SameTeam(T, a, b) == \E t \in DOMAIN T : InTeam(T, t, a) /\ InTeam(T, t, b)
RECURSIVE Flatten(_)
Flatten(T) == IF T = <<>> THEN <<>> ELSE Head(T) \o Flatten(Tail(T))
Occurrences(T, n) == Len(SelectSeq(Flatten(T), LAMBDA m : m = n))
TotalMembers(T) == Len(Flatten(T))
LockedStudents == {n \in Known : students[n].locked}
Mutual(a, b) == a # b /\ b \in students[a].friends /\ a \in students[b].friends
Linked(a, b) == b \in students[a].friends \/ a \in students[b].friends

\* C1: no locked student is among students_out or students_in of a logged
\* swap, and every locked student is in the same team as when the run began.
C1_LockedNeverMoves ==
    /\ \A i \in DOMAIN applied_swaps :
          \A n \in Moved(applied_swaps[i]) : ~students[n].locked
    /\ \A t \in DOMAIN teams :
          Range(teams[t]) \cap LockedStudents = Range(start_teams[t]) \cap LockedStudents

C1_Witness ==
    /\ Swapped
    /\ \E n \in Known :
          /\ students[n].locked
          /\ students[n].choice = 3
          /\ InTeam(teams, LastSwap.from_team, n)

\* C2: starting from duplicate-free, disjoint member lists, every identity
\* occurs in the member lists as often as at the start (at most once) and the
\* total number of members is unchanged.
C2_NoStudentCreatedOrLost ==
    /\ \A n \in Known \cup {Ghost} :
          /\ Occurrences(teams, n) = Occurrences(start_teams, n)
          /\ Occurrences(teams, n) <= 1
    /\ TotalMembers(teams) = TotalMembers(start_teams)

C2_Witness == Len(applied_swaps) = 2

\* C3 as stated: two mutually declared friends who are in one team just
\* before a swap are in one team just after it, whatever the friend graph.
C3_MutualFriendsStayTogether ==
    Swapped =>
       \A a, b \in Known :
          (Mutual(a, b) /\ SameTeam(prev_teams, a, b)) => SameTeam(teams, a, b)

\* no third student of the team of a and b is linked, from either side, to a
\* or to b
OnlyEachOther(T, a, b) ==
    \A t \in DOMAIN T : \A c \in Range(T[t]) \cap Known :
       (InTeam(T, t, a) /\ c # a /\ c # b) => ~Linked(a, c) /\ ~Linked(b, c)

\* C3 amended: two mutually declared friends who are in one team just before
\* a swap, neither of them linked (from either side) to a third student of
\* that team, are in one team just after it.
C3_IsolatedMutualFriendsStayTogether ==
    Swapped =>
       \A a, b \in Known :
          (Mutual(a, b) /\ SameTeam(prev_teams, a, b) /\ OnlyEachOther(prev_teams, a, b))
             => SameTeam(teams, a, b)

C3_Witness ==
    /\ Swapped
    /\ LastSwap.priority = 2
    /\ Mutual(LastSwap.students_out[1], LastSwap.students_out[2])
    /\ OnlyEachOther(prev_teams, LastSwap.students_out[1], LastSwap.students_out[2])

\* C4: the two students_out of a priority-2 swap are both in from_team before
\* it and both in to_team after it, and the two students_in are both in
\* to_team before it and both in from_team after it.
C4_PairMovesTogether ==
    (Swapped /\ LastSwap.priority = 2) =>
       /\ Len(LastSwap.students_out) = 2 /\ Len(LastSwap.students_in) = 2
       /\ LastSwap.students_out[1] # LastSwap.students_out[2]
       /\ LastSwap.students_in[1] # LastSwap.students_in[2]
       /\ \A n \in Range(LastSwap.students_out) :
             /\ InTeam(prev_teams, LastSwap.from_team, n)
             /\ InTeam(teams, LastSwap.to_team, n)
             /\ ~InTeam(teams, LastSwap.from_team, n)
       /\ \A n \in Range(LastSwap.students_in) :
             /\ InTeam(prev_teams, LastSwap.to_team, n)
             /\ InTeam(teams, LastSwap.from_team, n)
             /\ ~InTeam(teams, LastSwap.to_team, n)

C4_Witness == Swapped /\ LastSwap.priority = 2

\* C5: the spreads recomputed from the member lists just before and just
\* after a logged swap improve: the ep3 spread decreased, or it is unchanged
\* and the boys+girls spread sum or the greek_yes spread decreased.
C5_AppliedSwapImproves ==
    Swapped =>
       LET b == SpreadsOf(TeamStats(prev_teams))
           a == SpreadsOf(TeamStats(teams))
       IN  \/ a.ep3 < b.ep3
           \/ /\ a.ep3 = b.ep3
              /\ (a.boys + a.girls < b.boys + b.girls \/ a.greek_yes < b.greek_yes)

C5_Witness ==
    /\ Swapped
    /\ SpreadsOf(TeamStats(prev_teams)).ep3 = SpreadsOf(TeamStats(teams)).ep3

\* C6: the loop runs at most max_iterations iterations, so the log has at
\* most max_iterations entries; with max_iterations = 0 the log is empty and
\* the teams are unchanged.
C6_AtMostMaxIterations ==
    /\ iteration <= max_iterations
    /\ Len(applied_swaps) <= max_iterations
    /\ (max_iterations = 0 => applied_swaps = <<>> /\ teams = start_teams)

\* the cap ended the loop although the next iteration would have swapped
C6_Witness ==
    /\ stop = "exhausted"
    /\ max_iterations >= 1
    /\ Len(applied_swaps) = max_iterations
    /\ ~AllWithinTargets(calculate_spreads)
    /\ ep3_counts # <<>>
    /\ ~Ep3GapWithinTarget
    /\ all_swaps # <<>>

\* C7: when the first run stopped at one of the two convergence tests, the
\* second run on its result logs no swap and leaves every member list as it
\* found it.
C7_ConvergedRunIsIdempotent ==
    (run = 2 /\ first_stop \in {"converged1", "converged2"}) =>
       /\ applied_swaps = <<>>
       /\ teams = start_teams
       /\ stop \in {"none", "converged1", "converged2"}

C7_Witness ==
    /\ run = 2
    /\ pc = "done"
    /\ first_stop = "converged2"
    /\ first_log # <<>>

\* C9: a swap is applied only where the ep3 spread exceeds target_ep3; an
\* iteration that finds the ep3 spread within target_ep3 ends the loop at one
\* of the two convergence tests (or, on an empty team mapping, by the
\* ValueError) and changes neither teams nor log.
C9_SwapOnlyAboveEp3Target ==
    [][ /\ (applied_swaps' # applied_swaps /\ run' = run)
           => calculate_spreads.ep3 > target_ep3
        /\ (pc = "loop" /\ iteration < max_iterations
              /\ calculate_spreads.ep3 <= target_ep3)
           => /\ \/ pc' = "final" /\ stop' \in {"converged1", "converged2"}
                 \/ pc' = "raised" /\ teams = <<>>
              /\ teams' = teams
              /\ applied_swaps' = applied_swaps ]_vars

C9_Witness ==
    /\ run = 1
    /\ Swapped
    /\ stop = "converged2"
    /\ calculate_spreads.greek_yes > target_greek

\* C10: each of the four spreads is the largest minus the smallest per-team
\* count of that category; all four are 0 for zero teams and for one team.
MemberCount(t, attr, val) ==
    Cardinality({n \in Range(teams[t]) \cap Known : students[n][attr] = val})
IsMaxMinusMin(d, attr, val) ==
    LET counts == {MemberCount(t, attr, val) : t \in DOMAIN teams}
    IN  \E hi, lo \in counts :
           /\ d = hi - lo
           /\ \A c \in counts : lo <= c /\ c <= hi

C10_SpreadsAreMaxMinusMin ==
    LET sp == calculate_spreads
    IN  /\ Len(teams) <= 1 => sp = [ep3 |-> 0, boys |-> 0, girls |-> 0, greek_yes |-> 0]
        /\ Len(teams) >= 1 =>
              /\ IsMaxMinusMin(sp.ep3, "choice", 3)
              /\ IsMaxMinusMin(sp.boys, "gender", "A")
              /\ IsMaxMinusMin(sp.girls, "gender", "K")
              /\ IsMaxMinusMin(sp.greek_yes, "greek_knowledge", "N")
        /\ pc = "done" => final_spreads = sp

C10_Witness ==
    /\ pc = "done"
    /\ Swapped
    /\ Len(teams) = 3
    /\ final_spreads.ep3 > 0

\* the input of the example: Team A = [S1, S2] with choice 3, Team B = [S3, S4]
\* with choice 1, nobody locked, no friends, one gender and one
\* greek_knowledge
ExampleInput ==
    /\ start_teams = <<<<1, 2>>, <<3, 4>>>>
    /\ \A n \in 1..4 :
          /\ students[n].choice = ExampleChoice[n]
          /\ ~students[n].locked
          /\ students[n].friends = {}
          /\ students[n].gender = students[1].gender
          /\ students[n].greek_knowledge = students[1].greek_knowledge

\* the returned log holds one swap of one student of Team A for one student
\* of Team B, and the returned ep3 spread is 0
OneSwapAndBalanced ==
    /\ Len(applied_swaps) = 1
    /\ applied_swaps[1].from_team = 1 /\ applied_swaps[1].to_team = 2
    /\ Len(applied_swaps[1].students_out) = 1
    /\ Len(applied_swaps[1].students_in) = 1
    /\ applied_swaps[1].students_out[1] \in {1, 2}
    /\ applied_swaps[1].students_in[1] \in {3, 4}
    /\ Range(teams[1]) = ({1, 2} \ Range(applied_swaps[1].students_out))
                            \cup Range(applied_swaps[1].students_in)
    /\ Range(teams[2]) = ({3, 4} \ Range(applied_swaps[1].students_in))
                            \cup Range(applied_swaps[1].students_out)
    /\ final_spreads.ep3 = 0

\* C11 as stated: on the example input with the default targets 3/4/4 the
\* run returns a log of exactly one swap, one student of Team A for one of
\* Team B, and an ep3 spread of 0.
C11_ExampleSwapsUnderDefaults ==
    (ExampleInput /\ pc = "done"
       /\ target_ep3 = 3 /\ target_gender = 4 /\ target_greek = 4)
       => OneSwapAndBalanced

\* C11 amended: on the example input with target_ep3 below the initial ep3
\* spread 2 and at least one iteration allowed, the run returns a log of
\* exactly one swap, one student of Team A for one of Team B, and an ep3
\* spread of 0; with the default targets 3/4/4 it returns an empty log, the
\* teams as given and an ep3 spread of 2.
C11_ExampleSwapsUnderTightTarget ==
    (ExampleInput /\ pc = "done") =>
       /\ (target_ep3 < 2 /\ max_iterations >= 1) => OneSwapAndBalanced
       /\ (target_ep3 = 3 /\ target_gender = 4 /\ target_greek = 4) =>
             /\ applied_swaps = <<>>
             /\ teams = start_teams
             /\ final_spreads.ep3 = 2

C11_Witness ==
    /\ ExampleInput
    /\ pc = "done"
    /\ target_ep3 = 1
    /\ stop = "converged1"
    /\ OneSwapAndBalanced

\* the team optimize picks as max_team when it starts from the member lists T
MaxTeamOf(T) == FirstMaxIdx(Ep3Column(TeamStats(T)))

\* at the start of the run the ep3 spread exceeds target_ep3 and every
\* student of the max team is locked
MaxTeamLockedAtStart ==
    /\ start_teams # <<>>
    /\ \E t \in DOMAIN start_teams :
          \A n \in Range(start_teams[t]) \cap Known : students[n].locked
    /\ SpreadsOf(TeamStats(start_teams)).ep3 > target_ep3
    /\ \A n \in Range(start_teams[MaxTeamOf(start_teams)]) \cap Known : students[n].locked

\* C12: when the ep3 spread exceeds target_ep3 at the start and every student
\* of the max team is locked, the candidate pool of the first iteration is
\* empty, the loop stops in that iteration (no iteration is completed), the
\* log stays empty and every member list stays as it was.
C12_LockedMaxTeamStopsAtOnce ==
    (MaxTeamLockedAtStart /\ max_iterations >= 1) =>
       /\ iteration = 0
       /\ applied_swaps = <<>>
       /\ teams = start_teams
       /\ pc = "loop" => all_swaps = <<>>
       /\ pc # "loop" => stop = "stuck"

\* the min team offers unlocked students without choice 3: the pool is empty
\* because of the locks of the max team alone
C12_Witness ==
    /\ MaxTeamLockedAtStart
    /\ stop = "stuck"
    /\ pc = "done"
    /\ _get_solos_without_ep3(min_team) # <<>>
    /\ Len(teams[max_team]) >= 2

\* C13: optimize on an empty team mapping with targets >= 0 does not raise,
\* logs no swap, leaves the mapping empty and returns four spreads of 0.
C13_EmptyMappingIsNoOp ==
    (start_teams = <<>> /\ target_ep3 >= 0 /\ target_gender >= 0 /\ target_greek >= 0)
       => /\ pc # "raised"
          /\ applied_swaps = <<>>
          /\ teams = <<>>
          /\ pc = "done" => final_spreads = [ep3 |-> 0, boys |-> 0, girls |-> 0, greek_yes |-> 0]

C13_Witness ==
    /\ start_teams = <<>>
    /\ pc = "done"
    /\ max_iterations >= 1
    /\ target_ep3 = 0 /\ target_gender = 0 /\ target_greek = 0
    /\ stop = "converged1"

\* C14: every logged swap carries as many students_in as students_out, one
\* each (priority 1 and 3) or two each (priority 2), and every team has as
\* many members as at the start of the run.
C14_EqualExchangeKeepsTeamSizes ==
    /\ \A i \in DOMAIN applied_swaps :
          LET w == applied_swaps[i] IN
          /\ Len(w.students_out) = Len(w.students_in)
          /\ Len(w.students_out) = (IF w.priority = 2 THEN 2 ELSE 1)
    /\ Len(teams) = Len(start_teams)
    /\ \A t \in DOMAIN teams : Len(teams[t]) = Len(start_teams[t])

\* a pair unit was exchanged between teams of different sizes
C14_Witness ==
    /\ Swapped
    /\ LastSwap.priority = 2
    /\ Len(teams[LastSwap.from_team]) # Len(teams[LastSwap.to_team])
    /\ _get_solos_without_ep3(LastSwap.from_team) # <<>>

\* counts and spreads taken from member sets, and the member sets that an
\* exchange of the sets out (of team t1) and in (of team t2) leaves
CountIn(S, attr, val) == Cardinality({n \in S \cap Known : students[n][attr] = val})
SpreadOver(M, attr, val) ==
    LET counts == {CountIn(M[t], attr, val) : t \in DOMAIN M}
    IN  SetMax(counts) - SetMin(counts)
MembersNow == [t \in DOMAIN teams |-> Range(teams[t])]
MembersAfterExchange(t1, out, t2, in) ==
    [t \in DOMAIN teams |->
        IF t = t1 THEN (Range(teams[t]) \ out) \cup in
        ELSE IF t = t2 THEN (Range(teams[t]) \ in) \cup out
        ELSE Range(teams[t])]
ExchangeImproves(t1, out, t2, in) ==
    LET after == MembersAfterExchange(t1, out, t2, in)
        d_ep3 == SpreadOver(MembersNow, "choice", 3) - SpreadOver(after, "choice", 3)
        d_boys == SpreadOver(MembersNow, "gender", "A") - SpreadOver(after, "gender", "A")
        d_girls == SpreadOver(MembersNow, "gender", "K") - SpreadOver(after, "gender", "K")
        d_greek == SpreadOver(MembersNow, "greek_knowledge", "N")
                     - SpreadOver(after, "greek_knowledge", "N")
    IN  d_ep3 > 0 \/ (d_ep3 = 0 /\ (d_boys > 0 \/ d_girls > 0 \/ d_greek > 0))

\* an unlocked student of team t with no friend of their own list in t
IsSoloIn(t, n) ==
    /\ n \in Range(teams[t]) \cap Known
    /\ ~students[n].locked
    /\ students[n].friends \cap Range(teams[t]) = {}

\* the legal exchanges from t1 to t2: a choice-3 solo for a solo without
\* choice 3 of the same gender (Tier 3, of which Tier 1 is a part), and a
\* pair unit with choice 3 for a pair unit without, matching position by
\* position (Tier 2)
SoloExchanges(t1, t2) ==
    {<<{a}, {b}>> : <<a, b>> \in
        {p \in Known \X Known :
            /\ IsSoloIn(t1, p[1]) /\ students[p[1]].choice = 3
            /\ IsSoloIn(t2, p[2]) /\ students[p[2]].choice # 3
            /\ students[p[1]].gender = students[p[2]].gender}}
PairExchanges(t1, t2) ==
    {<<{pq[1].name_a, pq[1].name_b}, {pq[2].name_a, pq[2].name_b}>> : pq \in
        {x \in Range(_get_pairs_with_ep3(t1)) \X Range(_get_pairs_without_ep3(t2)) :
            /\ students[x[1].name_a].gender = students[x[2].name_a].gender
            /\ students[x[1].name_b].gender = students[x[2].name_b].gender
            /\ students[x[1].name_a].greek_knowledge = students[x[2].name_a].greek_knowledge
            /\ students[x[1].name_b].greek_knowledge = students[x[2].name_b].greek_knowledge}}
NoImprovingExchange(t1, t2) ==
    \A x \in SoloExchanges(t1, t2) \cup PairExchanges(t1, t2) :
        ~ExchangeImproves(t1, x[1], t2, x[2])

Ep3Before(t) == Cardinality({n \in Range(prev_teams[t]) \cap Known : students[n].choice = 3})

\* C16: just before a logged swap, from_team is the first team whose
\* choice-3 count is the highest of all teams and to_team is the first team
\* whose choice-3 count is the lowest of all teams.
C16_SwapBetweenFirstMaxAndFirstMin ==
    Swapped =>
       /\ \A t \in DOMAIN prev_teams :
             /\ Ep3Before(t) <= Ep3Before(LastSwap.from_team)
             /\ Ep3Before(t) >= Ep3Before(LastSwap.to_team)
       /\ \A t \in 1..(LastSwap.from_team - 1) : Ep3Before(t) < Ep3Before(LastSwap.from_team)
       /\ \A t \in 1..(LastSwap.to_team - 1) : Ep3Before(t) > Ep3Before(LastSwap.to_team)

\* a swap taken while another team tied with from_team for the highest count
C16_Witness ==
    /\ Swapped
    /\ Len(prev_teams) = 3
    /\ \E t \in DOMAIN prev_teams :
          t # LastSwap.from_team /\ Ep3Before(t) = Ep3Before(LastSwap.from_team)

\* the improvement key of a candidate, and its order
ImprovementKey(c) ==
    <<c.improvement.delta_ep3,
      c.improvement.delta_boys + c.improvement.delta_girls,
      c.improvement.delta_greek>>
LexGreater(k1, k2) ==
    \/ k1[1] > k2[1]
    \/ k1[1] = k2[1] /\ k1[2] > k2[2]
    \/ k1[1] = k2[1] /\ k1[2] = k2[2] /\ k1[3] > k2[3]

\* c was generated before d: the candidates are numbered in list order by
\* the student they move out
GeneratedBefore(c, d) == c.students_out[1] < d.students_out[1]

\* C17: the candidate returned for a non-empty list is one of the list, no
\* candidate has a greater key (delta_ep3, delta_boys + delta_girls,
\* delta_greek), none with the same key has a smaller tier, and none with the
\* same key and tier was generated before it; for the empty list None is
\* returned.
C17_SelectsMaximalKeyThenLowestTier ==
    pc = "selected" =>
       IF pool = <<>> THEN best_swap = None
       ELSE /\ best_swap \in Range(pool)
            /\ \A c \in Range(pool) :
                  /\ ~LexGreater(ImprovementKey(c), ImprovementKey(best_swap))
                  /\ ImprovementKey(c) = ImprovementKey(best_swap)
                        => /\ best_swap.priority <= c.priority
                           /\ c.priority = best_swap.priority
                                 => ~GeneratedBefore(c, best_swap)

\* the returned candidate was the last of three in the list, behind a
\* candidate of the same key and a higher tier number
C17_Witness ==
    /\ pc = "selected"
    /\ Len(pool) = 3
    /\ best_swap.students_out = <<3>>
    /\ \E c \in Range(pool) :
          /\ c # best_swap
          /\ ImprovementKey(c) = ImprovementKey(best_swap)
          /\ c.priority > best_swap.priority

\* C18: the improves flag returned for a hypothetical swap is true exactly
\* when delta_ep3 > 0, or delta_ep3 = 0 and delta_boys + delta_girls > 0 or
\* delta_greek > 0 (the demographic term being the sum of the two deltas).
C18_ImprovesIffSumPredicate ==
    pc = "scored" =>
       (improvement.improves <=>
           \/ improvement.delta_ep3 > 0
           \/ /\ improvement.delta_ep3 = 0
              /\ \/ improvement.delta_boys + improvement.delta_girls > 0
                 \/ improvement.delta_greek > 0)

\* the four counters of a stats entry that the scorer adjusts
FourCounts(entry) == <<entry.ep3, entry.boys, entry.girls, entry.greek_yes>>

\* the scorer's stats_after for candidate w of the last generated pool, and
\* what _get_team_stats reports once _apply_swap has applied w to the teams
\* the pool was generated from
SimulatedStats(w) ==
    StatsAfter(TeamStats(prev_teams), w.from_team, w.students_out, w.to_team, w.students_in)
AppliedStats(w) == TeamStats(_apply_swap(prev_teams, w))

\* C19: when an iteration has generated its pool, for every candidate of it the
\* simulated counts of choice 3, boys, girls and greek_yes equal, team by
\* team, the counts after the candidate is really applied, and each delta of
\* its improvement is the spread over all teams before minus the spread over
\* all teams after.
C19_SimulationMatchesApply ==
    pc = "loop" => \A i \in DOMAIN pool :
       LET w == pool[i]
           sim == SimulatedStats(w)
           real == AppliedStats(w)
           before == SpreadsOf(TeamStats(prev_teams))
           after == SpreadsOf(real)
       IN  /\ DOMAIN sim = DOMAIN real
           /\ \A t \in DOMAIN real : FourCounts(sim[t]) = FourCounts(real[t])
           /\ w.improvement.delta_ep3 = before.ep3 - after.ep3
           /\ w.improvement.delta_boys = before.boys - after.boys
           /\ w.improvement.delta_girls = before.girls - after.girls
           /\ w.improvement.delta_greek = before.greek_yes - after.greek_yes
           /\ w.improvement.ep3_before = before.ep3
           /\ w.improvement.ep3_after = after.ep3

\* a candidate among three teams after which the team not exchanged holds
\* the highest or the lowest choice-3 count
C19_Witness ==
    /\ Len(prev_teams) = 3
    /\ \E i \in DOMAIN pool :
          LET real == AppliedStats(pool[i])
              gap == real[pool[i].from_team].ep3 - real[pool[i].to_team].ep3
          IN  /\ pool[i].improvement.ep3_after > gap
              /\ pool[i].improvement.ep3_after > -gap

\* the team lists hold an identity without a student record
GhostPresent == \E t \in DOMAIN start_teams : Ghost \in Range(start_teams[t])

\* C20: an identity of a member list without a student record is counted in
\* no bucket of the team's stats (each category's buckets add up to the
\* number of members with a record), is in no solo list and in no pair unit
\* of any team, is moved by no logged swap and stays in its list, and the run
\* does not raise.
C20_UnknownIdentityIsSkipped ==
    GhostPresent =>
       /\ \A t \in DOMAIN teams :
             LET st == _get_team_stats[t]
                 known == Len(SelectSeq(teams[t], LAMBDA n : n \in Known))
             IN  /\ st.boys + st.girls = known
                 /\ st.greek_yes + st.greek_no = known
                 /\ st.ep1 + st.ep2 + st.ep3 = known
                 /\ Ghost \notin Range(_get_solos_with_ep3(t))
                 /\ Ghost \notin Range(_get_solos_without_ep3(t))
                 /\ \A u \in Range(_get_pairs_with_ep3(t)) \cup Range(_get_pairs_without_ep3(t)) :
                       u.name_a # Ghost /\ u.name_b # Ghost
                 /\ Ghost \in Range(teams[t]) <=> Ghost \in Range(start_teams[t])
       /\ \A i \in DOMAIN applied_swaps : Ghost \notin Moved(applied_swaps[i])
       /\ pc # "raised"

\* a swap was taken out of the team that holds the unknown identity, which a
\* student of that team names as a friend
C20_Witness ==
    /\ GhostPresent
    /\ pc = "done"
    /\ Swapped
    /\ Ghost \in Range(teams[LastSwap.from_team])
    /\ \E n \in Range(teams[LastSwap.from_team]) \cap Known : Ghost \in students[n].friends

\* the solo sets and the pair units of one team
SoloSet(t) == Range(_get_solos_with_ep3(t)) \cup Range(_get_solos_without_ep3(t))
PairUnitMembers(t) ==
    UNION {{u.name_a, u.name_b} :
              u \in Range(_get_pairs_with_ep3(t)) \cup Range(_get_pairs_without_ep3(t))}

\* C21: a student in a solo set of a team has no team-mate linked to them in
\* either direction (their own friends name no team-mate and no team-mate's
\* friends name them), and no student is at once in a solo set and in a pair
\* unit of the same team.
C21_SoloHasNoLinkEitherWay ==
    \A t \in DOMAIN teams : \A n \in SoloSet(t) :
        /\ \A m \in (Range(teams[t]) \cap Known) \ {n} : ~Linked(n, m)
        /\ n \notin PairUnitMembers(t)

\* the exchanges open to the generator just before the last swap, taken from
\* the member sets of prev_teams: the spreads an exchange of the sets out (of
\* team t1) and in (of team t2) leaves, its improvement key and its flag
MembersBefore == [t \in DOMAIN prev_teams |-> Range(prev_teams[t])]
MembersBeforeAfter(t1, out, t2, in) ==
    [t \in DOMAIN prev_teams |->
        IF t = t1 THEN (Range(prev_teams[t]) \ out) \cup in
        ELSE IF t = t2 THEN (Range(prev_teams[t]) \ in) \cup out
        ELSE Range(prev_teams[t])]
KeyBefore(t1, out, t2, in) ==
    LET after == MembersBeforeAfter(t1, out, t2, in)
    IN  <<SpreadOver(MembersBefore, "choice", 3) - SpreadOver(after, "choice", 3),
          (SpreadOver(MembersBefore, "gender", "A") - SpreadOver(after, "gender", "A"))
            + (SpreadOver(MembersBefore, "gender", "K") - SpreadOver(after, "gender", "K")),
          SpreadOver(MembersBefore, "greek_knowledge", "N")
            - SpreadOver(after, "greek_knowledge", "N")>>
\* with equal genders position by position both gender deltas are 0, and the
\* flag is delta_ep3 > 0, or delta_ep3 = 0 and delta_greek > 0
KeyImproves(k) == k[1] > 0 \/ (k[1] = 0 /\ (k[2] > 0 \/ k[3] > 0))
WasSoloIn(t, n) ==
    /\ n \in Range(prev_teams[t]) \cap Known
    /\ ~students[n].locked
    /\ students[n].friends \cap Range(prev_teams[t]) = {}
SoloPairingsBefore(t1, t2) ==
    {p \in Known \X Known :
        /\ WasSoloIn(t1, p[1]) /\ students[p[1]].choice = 3
        /\ WasSoloIn(t2, p[2]) /\ students[p[2]].choice # 3
        /\ students[p[1]].gender = students[p[2]].gender}
PairPairingsBefore(t1, t2) ==
    {x \in Range(PairsFrom(prev_teams[t1], 1, {}, TRUE))
              \X Range(PairsFrom(prev_teams[t2], 1, {}, FALSE)) :
        /\ students[x[1].name_a].gender = students[x[2].name_a].gender
        /\ students[x[1].name_b].gender = students[x[2].name_b].gender
        /\ students[x[1].name_a].greek_knowledge = students[x[2].name_a].greek_knowledge
        /\ students[x[1].name_b].greek_knowledge = students[x[2].name_b].greek_knowledge}
\* the improving exchanges of each tier as <<tier, out, in, key>>
Tier1Before(t1, t2) ==
    {x \in {<<1, <<p[1]>>, <<p[2]>>, KeyBefore(t1, {p[1]}, t2, {p[2]})>> :
               p \in {q \in SoloPairingsBefore(t1, t2) :
                         students[q[1]].greek_knowledge = students[q[2]].greek_knowledge}} :
        KeyImproves(x[4])}
Tier2Before(t1, t2) ==
    {x \in {<<2, <<p[1].name_a, p[1].name_b>>, <<p[2].name_a, p[2].name_b>>,
              KeyBefore(t1, {p[1].name_a, p[1].name_b}, t2, {p[2].name_a, p[2].name_b})>> :
               p \in PairPairingsBefore(t1, t2)} :
        KeyImproves(x[4])}
Tier3Before(t1, t2) ==
    {x \in {<<3, <<p[1]>>, <<p[2]>>, KeyBefore(t1, {p[1]}, t2, {p[2]})>> :
               p \in SoloPairingsBefore(t1, t2)} :
        KeyImproves(x[4])}
\* the Tier 2 and Tier 3 exchanges whose key is greater than that of every
\* Tier 1 exchange
BetterAmong(later, tier1) ==
    {x \in later : \A y \in tier1 : LexGreater(x[4], y[4])}
BetterThanTier1(t1, t2) ==
    BetterAmong(Tier2Before(t1, t2) \cup Tier3Before(t1, t2), Tier1Before(t1, t2))
AppliedExchange ==
    <<best_swap.priority, best_swap.students_out, best_swap.students_in,
      ImprovementKey(best_swap)>>

C23_FrameOfTheLoop ==
    [][/\ students' = students
       /\ DOMAIN teams' = DOMAIN teams
       /\ IF Len(applied_swaps') = Len(applied_swaps) + 1
          THEN LET w == applied_swaps'[Len(applied_swaps')]
               IN  /\ \A t \in DOMAIN teams \ {w.from_team, w.to_team} :
                         teams'[t] = teams[t]
                   /\ Range(teams'[w.from_team])
                         = (Range(teams[w.from_team]) \ Range(w.students_out))
                              \cup Range(w.students_in)
                   /\ Range(teams'[w.to_team])
                         = (Range(teams[w.to_team]) \ Range(w.students_in))
                              \cup Range(w.students_out)
          ELSE teams' = teams]_vars

\* a swap applied among three teams, the third of them holding members
C23_Witness ==
    /\ Swapped
    /\ Len(teams) = 3
    /\ \E t \in DOMAIN teams \ {LastSwap.from_team, LastSwap.to_team} :
          teams[t] # <<>> /\ teams[t] = prev_teams[t]

\* boys and girls of a member list
BoysIn(student_names) == CountIf(student_names, "gender", {"A"})
GirlsIn(student_names) == CountIf(student_names, "gender", {"K"})

\* C24: every candidate of the last generated pool exchanges students of
\* equal gender position by position; every team holds as many boys and as
\* many girls as when the run began; delta_boys and delta_girls are 0 in
\* every log entry; and the boys and girls spreads that optimize returns are
\* those of the teams the run began with.
C24_GenderCountsNeverChange ==
    /\ \A i \in DOMAIN pool : \A k \in DOMAIN pool[i].students_out :
          students[pool[i].students_out[k]].gender = students[pool[i].students_in[k]].gender
    /\ \A t \in DOMAIN teams :
          /\ BoysIn(teams[t]) = BoysIn(start_teams[t])
          /\ GirlsIn(teams[t]) = GirlsIn(start_teams[t])
    /\ \A i \in DOMAIN applied_swaps :
          /\ applied_swaps[i].improvement.delta_boys = 0
          /\ applied_swaps[i].improvement.delta_girls = 0
    /\ pc = "done" =>
          /\ final_spreads.boys = SpreadsOf(TeamStats(start_teams)).boys
          /\ final_spreads.girls = SpreadsOf(TeamStats(start_teams)).girls

\* a run that swapped between teams of boys and girls and returned with the
\* boys spread still above target_gender
C24_Witness ==
    /\ pc = "done"
    /\ Swapped
    /\ final_spreads.boys > target_gender
    /\ \E n, m \in Range(prev_teams[LastSwap.from_team]) \cap Known :
          students[n].gender # students[m].gender

(* ------------------- optimize under the default cap -------------------- *)
\* max_iterations of optimize as the program calls it
DefaultCap == 100

\* every choice and every greek_knowledge in two teams and in three, run
\* under the default cap and the default target_gender, with targets of 0
\* for the choice-3 and the greek_yes spread
InitDefaultCap ==
    \E sizes \in LockedLayouts, choice \in Choices, greek \in [Known -> {"N", "O"}] :
        InitWith(sizes, choice, AllBoys, greek, {}, NoFriends, <<0, 4, 0>>, DefaultCap)

\* friend pairs in both teams under the default cap
InitDefaultCapFriends ==
    \E choice \in Choices, high \in SUBSET {<<1, 2>>, <<2, 3>>}, low \in LinksLow :
        InitWith(<<NumStudents - 2, 2>>, choice, AllBoys, AllProficient, {},
                 FriendsOf(high \cup low), <<0, 4, 0>>, DefaultCap)

TermInit ==
    \/ InitUnmeetable
    \/ InitDefaultCap
    \/ InitDefaultCapFriends

\* optimize is sequential code: as long as it has not returned for the second
\* time or raised, its next step is taken.  Next is enabled in every state but
\* those of Terminal (in the loop one of the breaks, the raise or the swap is
\* open, after the loop the return, after the first return the second call),
\* so weak fairness of Next is stated with Terminal for ~ENABLED <<Next>>_vars
Terminal == pc = "raised" \/ (pc = "done" /\ run = 2)
Scheduling == WF_vars(CallAgain) /\ ([]<>Terminal \/ []<><<Next>>_vars)
TermSpec == TermInit /\ [][Next]_vars /\ Scheduling

\* the member sets after the first k swaps of the log, found by taking back
\* the later swaps from the present member sets
UndoExchange(M, w) ==
    [t \in DOMAIN M |->
        IF t = w.from_team THEN (M[t] \ Range(w.students_in)) \cup Range(w.students_out)
        ELSE IF t = w.to_team THEN (M[t] \ Range(w.students_out)) \cup Range(w.students_in)
        ELSE M[t]]
RECURSIVE MembersAt(_)
MembersAt(k) ==
    IF k >= Len(applied_swaps) THEN MembersNow
    ELSE UndoExchange(MembersAt(k + 1), applied_swaps[k + 1])

\* the last swap lowered the choice-3 spread, or kept it and lowered the
\* greek_yes spread
LastSwapLowersMeasure ==
    LET before == SpreadsOf(TeamStats(prev_teams))
        after == SpreadsOf(TeamStats(teams))
    IN  \/ after.ep3 < before.ep3
        \/ after.ep3 = before.ep3 /\ after.greek_yes < before.greek_yes
NoAssignmentTwice ==
    /\ MembersAt(0) = [t \in DOMAIN start_teams |-> Range(start_teams[t])]
    /\ \A i, j \in 0..Len(applied_swaps) : i < j => MembersAt(i) # MembersAt(j)
StoppedWithoutCap ==
    (max_iterations = DefaultCap /\ pc \in {"final", "done"})
       => stop \in {"converged1", "converged2", "stuck"}

\* C25: every applied swap lowers the pair (choice-3 spread, greek_yes
\* spread) in lexicographic order; no assignment of students to teams occurs
\* twice in a run; under the default cap of 100 the loop never ends because
\* the cap is reached but by a convergence test or for want of a candidate;
\* and every run ends.
C25_SwapsLowerMeasureAndRunEnds ==
    /\ [](Swapped => LastSwapLowersMeasure)
    /\ []NoAssignmentTwice
    /\ []StoppedWithoutCap
    /\ <>[](pc \in {"done", "raised"})

\* a run under the default cap that ended by a break after two swaps or more,
\* one that lowered the choice-3 spread and one that kept it and lowered the
\* greek_yes spread
C25_Witness ==
    /\ pc = "done"
    /\ max_iterations = DefaultCap
    /\ Len(applied_swaps) >= 2
    /\ stop \in {"converged1", "converged2", "stuck"}
    /\ \E i \in DOMAIN applied_swaps : applied_swaps[i].improvement.delta_ep3 > 0
    /\ \E i \in DOMAIN applied_swaps : applied_swaps[i].improvement.delta_ep3 = 0

\* number of choice-3 students of team t now, and among the names of a list
Ep3Now(t) == Cardinality({n \in Range(teams[t]) \cap Known : students[n].choice = 3})
Ep3Among(names) == Cardinality({n \in Range(names) \cap Known : students[n].choice = 3})
RECURSIVE SumOver(_, _)
SumOver(f, S) ==
    IF S = {} THEN 0
    ELSE LET t == CHOOSE x \in S : TRUE IN f[t] + SumOver(f, S \ {t})

\* C26: the last logged swap took at least one choice-3 student out of
\* from_team and brought none into it; from_team's choice-3 count went down
\* by 1 or 2 and to_team's went up by as much; the choice-3 students of all
\* teams together are as many as before.
C26_Ep3FlowsFromMaxToMin ==
    Swapped =>
       LET w == LastSwap
           moved == Ep3Before(w.from_team) - Ep3Now(w.from_team)
       IN  /\ Ep3Among(w.students_out) >= 1
           /\ Ep3Among(w.students_in) = 0
           /\ moved \in {1, 2}
           /\ moved = Ep3Among(w.students_out)
           /\ Ep3Now(w.to_team) - Ep3Before(w.to_team) = moved
           /\ SumOver([t \in DOMAIN teams |-> Ep3Now(t)], DOMAIN teams)
                 = SumOver([t \in DOMAIN prev_teams |-> Ep3Before(t)], DOMAIN prev_teams)

\* a pair swap that took two choice-3 students out of from_team
C26_Witness ==
    /\ Swapped
    /\ LastSwap.priority = 2
    /\ Ep3Before(LastSwap.from_team) - Ep3Now(LastSwap.from_team) = 2

\* c and d exchange the same students and carry the same improvement
SameExchange(c, d) ==
    /\ c.students_out = d.students_out
    /\ c.students_in = d.students_in
    /\ c.improvement = d.improvement
GreekYesIn(student_names) == CountIf(student_names, "greek_knowledge", GreekYes)

====
